---- MODULE Spec2Model ----
(***************************************************************************)
(* A model of the todo-list page script src/js/main.js: the formatter,     *)
(* the TodoManager store with its localStorage persistence, and the        *)
(* UIManager event handlers with the alert-hide timers.                    *)
(***************************************************************************)
EXTENDS Integers, Sequences, FiniteSets, TLC

VARIABLES
  phase,           \* "boot": page loaded, script not run; "run"; "crashed": the script threw
  todos,           \* TodoManager.todos
  storage,         \* localStorage item "todos"
  taskInput,       \* UIManager.taskInput.value
  dateInput,       \* UIManager.dateInput.value
  todosListBody,   \* rows of UIManager.todosListBody
  addBtn,          \* icon shown by UIManager.addBtn
  updateListeners, \* handleUpdate click listeners attached to addBtn
  alertMessage,    \* UIManager.alertMessage: content and show/hide class
  timers,          \* pending alert-hide callbacks (all alike, fired in order)
  themeItem,       \* localStorage item "theme"
  dataTheme        \* attribute data-theme of the html element

vars == <<phase, todos, storage, taskInput, dateInput, todosListBody, addBtn,
          updateListeners, alertMessage, timers, themeItem, dataTheme>>

(***************************************************************************)
(* Bounds of the model and constants of the program.                       *)
(***************************************************************************)
MaxTodos == 2
MaxTimers == 3
MaxListeners == 2
MaxTaskLen == 14

\* Values Math.random-built ids are drawn from (no uniqueness check in the code).
Ids == {"i1", "i2"}
LongTask == "Buy oat milk today"
Texts == {"a", LongTask}
Dates == {"", "2024-01-01"}
\* Lower-cased labels of the filter buttons, one of them matching no case.
FilterLabels == {"all", "pending", "completed", "done"}

(***************************************************************************)
(* TodoItemFormatter                                                       *)
(***************************************************************************)
formatTask(task) ==
  IF Len(task) > MaxTaskLen THEN SubSeq(task, 1, MaxTaskLen) \o "..." ELSE task

formatDueDate(dueDate) == IF dueDate # "" THEN dueDate ELSE "No due date"

formatStatus(completed) == IF completed THEN "Completed" ELSE "Pending"

(***************************************************************************)
(* JSON text of the collection, as a sequence of tokens.                   *)
(***************************************************************************)
NoItem == [present |-> FALSE, text |-> <<>>]
Item(text) == [present |-> TRUE, text |-> text]

RecordTokens(todo) ==
  <<"{", todo.id, todo.task, todo.dueDate,
    IF todo.completed THEN "true" ELSE "false", todo.status, "}">>

RECURSIVE ArrayTokens(_)
ArrayTokens(list) ==
  IF list = <<>> THEN <<>>
  ELSE RecordTokens(Head(list)) \o ArrayTokens(Tail(list))

JSONstringify(list) == <<"[">> \o ArrayTokens(list) \o <<"]">>

RecordWidth == 7

IsRecordAt(text, k) ==
  /\ text[k] = "{"
  /\ text[k + 4] \in {"true", "false"}
  /\ text[k + 6] = "}"

RecordAt(text, k) ==
  [id |-> text[k + 1], task |-> text[k + 2], dueDate |-> text[k + 3],
   completed |-> (text[k + 4] = "true"), status |-> text[k + 5]]

\* JSON.parse: [threw, null, value]; threw stands for the SyntaxError.
JSONparse(text) ==
  LET n == Len(text) - 2 IN
  IF text = <<"null">> THEN [threw |-> FALSE, null |-> TRUE, value |-> <<>>]
  ELSE IF /\ Len(text) >= 2
          /\ text[1] = "["
          /\ text[Len(text)] = "]"
          /\ n % RecordWidth = 0
          /\ \A j \in 0 .. (n \div RecordWidth) - 1 : IsRecordAt(text, 2 + j * RecordWidth)
       THEN [threw |-> FALSE, null |-> FALSE,
             value |-> [j \in 1 .. (n \div RecordWidth) |->
                          RecordAt(text, 2 + (j - 1) * RecordWidth)]]
       ELSE [threw |-> TRUE, null |-> FALSE, value |-> <<>>]

\* localStorage.getItem("todos") handed to JSON.parse: a missing key is null.
ParseItem(item) == IF item.present THEN JSONparse(item.text) ELSE JSONparse(<<"null">>)

Malformed == <<"[", "{">>
(***************************************************************************)
(* ThemeSwitcher. The page's markup gives the html element its theme       *)
(* before the script runs; the theme names are those of the selectors.     *)
(***************************************************************************)
Themes == {"light", "dark"}
PageTheme == "page"

NoTheme == [present |-> FALSE, text |-> ""]
ThemeItem(themeName) == [present |-> TRUE, text |-> themeName]

\* getItem gives the string, or null (here: the absent item) when none is kept
getThemeFromLocalStorage(item) == item

setTheme(themeName) == themeName

saveThemeToLocalStorage(themeName) == ThemeItem(themeName)

\* init: a theme that is neither null nor empty is applied.
init(item, attribute) ==
  LET theme == getThemeFromLocalStorage(item) IN
  IF theme.present /\ theme.text # "" THEN setTheme(theme.text) ELSE attribute

InitialStorage == {NoItem, Item(<<"null">>), Item(Malformed)}

(***************************************************************************)
(* The state handed from handler to handler.                               *)
(***************************************************************************)
St ==
  [todos |-> todos, storage |-> storage, taskInput |-> taskInput,
   dateInput |-> dateInput, todosListBody |-> todosListBody, addBtn |-> addBtn,
   updateListeners |-> updateListeners, alertMessage |-> alertMessage,
   timers |-> timers]

Becomes(s) ==
  /\ todos' = s.todos
  /\ storage' = s.storage
  /\ taskInput' = s.taskInput
  /\ dateInput' = s.dateInput
  /\ todosListBody' = s.todosListBody
  /\ addBtn' = s.addBtn
  /\ updateListeners' = s.updateListeners
  /\ alertMessage' = s.alertMessage
  /\ timers' = s.timers

NoAlert == [text |-> "", type |-> "", shown |-> FALSE]

\* The page as served, before the script runs.
FreshPage(item) ==
  [todos |-> <<>>, storage |-> item, taskInput |-> "", dateInput |-> "",
   todosListBody |-> <<>>, addBtn |-> "plus", updateListeners |-> 0,
   alertMessage |-> NoAlert, timers |-> 0]

(***************************************************************************)
(* TodoManager                                                             *)
(***************************************************************************)
\* Array.prototype.find by id: the index of the first match, 0 when none.
FindIndex(list, id) ==
  IF \E i \in 1 .. Len(list) : list[i].id = id
  THEN CHOOSE i \in 1 .. Len(list) :
         /\ list[i].id = id
         /\ \A j \in 1 .. (i - 1) : list[j].id # id
  ELSE 0

RECURSIVE WithoutId(_, _)
WithoutId(list, id) ==
  IF list = <<>> THEN <<>>
  ELSE IF Head(list).id # id THEN <<Head(list)>> \o WithoutId(Tail(list), id)
       ELSE WithoutId(Tail(list), id)

RECURSIVE WithCompleted(_, _)
WithCompleted(list, flag) ==
  IF list = <<>> THEN <<>>
  ELSE IF Head(list).completed = flag
       THEN <<Head(list)>> \o WithCompleted(Tail(list), flag)
       ELSE WithCompleted(Tail(list), flag)

saveToLocalStorage(s) == [s EXCEPT !.storage = Item(JSONstringify(s.todos))]

\* [threw, todos]: JSON.parse(localStorage.getItem("todos")) || []
TodoManagerConstructor(item) ==
  LET parsed == ParseItem(item) IN
  [threw |-> parsed.threw,
   todos |-> IF parsed.threw \/ parsed.null THEN <<>> ELSE parsed.value]

newTodo(id, task, dueDate) ==
  [id |-> id, task |-> formatTask(task), dueDate |-> formatDueDate(dueDate),
   completed |-> FALSE, status |-> "pending"]

\* addTodo putting the new record first (unshift for push)
addTodoInFront(s, id, task, dueDate) ==
  saveToLocalStorage([s EXCEPT !.todos = <<newTodo(id, task, dueDate)>> \o @])

addTodo(s, id, task, dueDate) ==
  saveToLocalStorage([s EXCEPT !.todos = Append(@, newTodo(id, task, dueDate))])

\* editTodo passing the new text through the formatter
editTodoFormatting(s, id, updatedTask) ==
  LET i == FindIndex(s.todos, id) IN
  IF i # 0
  THEN saveToLocalStorage([s EXCEPT !.todos[i].task = formatTask(updatedTask)])
  ELSE s

editTodo(s, id, updatedTask) ==
  LET i == FindIndex(s.todos, id) IN
  IF i # 0 THEN saveToLocalStorage([s EXCEPT !.todos[i].task = updatedTask]) ELSE s

\* What editTodo returns: <<todo>> for the record found, << >> for undefined.
editTodoReturn(s, id, updatedTask) ==
  LET i == FindIndex(s.todos, id) IN
  IF i # 0 THEN <<editTodo(s, id, updatedTask).todos[i]>> ELSE <<>>


\* deleteTodo taking out the first match only
deleteTodoFirstMatch(s, id) ==
  LET i == FindIndex(s.todos, id) IN
  saveToLocalStorage(
    [s EXCEPT !.todos = IF i = 0 THEN @
                        ELSE SubSeq(@, 1, i - 1) \o SubSeq(@, i + 1, Len(@))])

deleteTodo(s, id) ==
  saveToLocalStorage([s EXCEPT !.todos = WithoutId(@, id)])


\* toggleTodoStatus marking the record completed instead of flipping the flag
toggleTodoStatusSetting(s, id) ==
  LET i == FindIndex(s.todos, id) IN
  IF i # 0
  THEN saveToLocalStorage([s EXCEPT !.todos[i].completed = TRUE])
  ELSE s

\* toggleTodoStatus keeping the status field in step with the flag
toggleTodoStatusSyncing(s, id) ==
  LET i == FindIndex(s.todos, id) IN
  IF i # 0
  THEN saveToLocalStorage(
         [s EXCEPT !.todos[i].completed = ~@,
                   !.todos[i].status = IF s.todos[i].completed THEN "pending"
                                       ELSE "completed"])
  ELSE s

toggleTodoStatus(s, id) ==
  LET i == FindIndex(s.todos, id) IN
  IF i # 0
  THEN saveToLocalStorage([s EXCEPT !.todos[i].completed = ~@])
  ELSE s


\* clearAllTodos forgetting the write
clearAllTodosUnsaved(s) == [s EXCEPT !.todos = <<>>]

\* clearAllTodos writing also when the collection is empty
clearAllTodosAlwaysSaving(s) == saveToLocalStorage([s EXCEPT !.todos = <<>>])

clearAllTodos(s) ==
  IF Len(s.todos) > 0 THEN saveToLocalStorage([s EXCEPT !.todos = <<>>]) ELSE s


\* filterTodos with the test of "pending" inverted
filterTodosInverted(s, status) ==
  CASE status = "all" -> s.todos
    [] status = "pending" -> WithCompleted(s.todos, TRUE)
    [] status = "completed" -> WithCompleted(s.todos, TRUE)
    [] OTHER -> <<>>

filterTodos(s, status) ==
  CASE status = "all" -> s.todos
    [] status = "pending" -> WithCompleted(s.todos, FALSE)
    [] status = "completed" -> WithCompleted(s.todos, TRUE)
    [] OTHER -> <<>>

(***************************************************************************)
(* UIManager                                                               *)
(***************************************************************************)
NoTaskRow ==
  [kind |-> "empty", id |-> "", task |-> "No task found", dueDate |-> "", status |-> ""]

TodoRow(todo) ==
  [kind |-> "todo", id |-> todo.id, task |-> formatTask(todo.task),
   dueDate |-> formatDueDate(todo.dueDate), status |-> formatStatus(todo.completed)]


\* showAlertMessage clearing the earlier timeout before it sets its own
showAlertMessageRescheduling(s, message, type) ==
  [s EXCEPT !.alertMessage = [text |-> message, type |-> type, shown |-> TRUE],
            !.timers = 1]

\* showAlertMessage without the setTimeout
showAlertMessageUntimed(s, message, type) ==
  [s EXCEPT !.alertMessage = [text |-> message, type |-> type, shown |-> TRUE]]

showAlertMessage(s, message, type) ==
  [s EXCEPT !.alertMessage = [text |-> message, type |-> type, shown |-> TRUE],
            !.timers = @ + 1]

\* The callback of setTimeout in showAlertMessage.
hideAlert(s) ==
  [s EXCEPT !.alertMessage.shown = FALSE, !.timers = @ - 1]

displayTodos(s, list) ==
  [s EXCEPT !.todosListBody =
     IF Len(list) = 0 THEN <<NoTaskRow>>
     ELSE [i \in 1 .. Len(list) |-> TodoRow(list[i])]]

showAllTodos(s) == displayTodos(s, filterTodos(s, "all"))

handleAddTodo(s, id) ==
  IF s.taskInput = ""
  THEN showAlertMessage(s, "Please enter a task", "error")
  ELSE LET added == showAllTodos(addTodo(s, id, s.taskInput, s.dateInput))
           cleared == [added EXCEPT !.taskInput = "", !.dateInput = ""]
       IN showAlertMessage(cleared, "Task added successfully", "success")

\* handleClearAllTodos without the render
handleClearAllTodosUnrendered(s) ==
  showAlertMessage(clearAllTodos(s), "All todos cleared successfully", "success")

handleClearAllTodos(s) ==
  showAlertMessage(showAllTodos(clearAllTodos(s)),
                   "All todos cleared successfully", "success")

\* The closure handleEditTodo attaches to addBtn; it detaches itself.
\* handleUpdate without the removeEventListener
handleUpdateStaying(s) ==
  showAllTodos(showAlertMessage([s EXCEPT !.addBtn = "plus"],
                                "Todo updated successfully", "success"))

handleUpdate(s) ==
  LET alerted == showAlertMessage([s EXCEPT !.addBtn = "plus"],
                                  "Todo updated successfully", "success")
  IN [showAllTodos(alerted) EXCEPT !.updateListeners = @ - 1]

handleEditTodo(s, id) ==
  LET i == FindIndex(s.todos, id) IN
  IF i # 0
  THEN [deleteTodo([s EXCEPT !.taskInput = s.todos[i].task], id)
          EXCEPT !.addBtn = "check", !.updateListeners = @ + 1]
  ELSE s

handleToggleStatus(s, id) == showAllTodos(toggleTodoStatus(s, id))

handleDeleteTodo(s, id) ==
  showAllTodos(showAlertMessage(deleteTodo(s, id),
                                "Todo deleted successfully", "success"))

handleFilterTodos(s, status) == displayTodos(s, filterTodos(s, status))

\* A click of addBtn runs its listeners in the order they were attached:
\* handleAddTodo, then every handleUpdate still attached.
RECURSIVE RunUpdates(_, _)
RunUpdates(s, n) == IF n = 0 THEN s ELSE RunUpdates(handleUpdate(s), n - 1)

addBtnClick(s, id) == RunUpdates(handleAddTodo(s, id), s.updateListeners)

\* Ids of the rows whose buttons can be clicked.
RowIds == {todosListBody[i].id : i \in {j \in 1 .. Len(todosListBody) :
                                          todosListBody[j].kind = "todo"}}

Within(s) ==
  /\ Len(s.todos) <= MaxTodos
  /\ s.timers <= MaxTimers
  /\ s.updateListeners <= MaxListeners

(***************************************************************************)
(* The page: the script at the end of main.js, reloads, user input, events *)
(***************************************************************************)
InitPage ==
  /\ phase = "boot"
  /\ todos = <<>>
  /\ storage \in InitialStorage
  /\ taskInput = ""
  /\ dateInput = ""
  /\ todosListBody = <<>>
  /\ addBtn = "plus"
  /\ updateListeners = 0
  /\ alertMessage = NoAlert
  /\ timers = 0
  /\ dataTheme = PageTheme

\* A first visit: no theme was ever chosen.
Init ==
  /\ InitPage
  /\ themeItem = NoTheme

\* A visit that may follow one where a theme was chosen.
InitTheme ==
  /\ InitPage
  /\ themeItem \in {NoTheme, ThemeItem("dark")}

\* The script at the end of main.js: new TodoManager, then new UIManager
\* (addEventListeners, showAllTodos), then new ThemeSwitcher. An exception of
\* the first constructor ends it before the others run.
RunScript ==
  /\ phase = "boot"
  /\ LET made == TodoManagerConstructor(storage) IN
     IF made.threw
     THEN /\ phase' = "crashed"
          /\ UNCHANGED <<todos, storage, taskInput, dateInput, todosListBody,
                         addBtn, updateListeners, alertMessage, timers,
                         themeItem, dataTheme>>
     ELSE /\ phase' = "run"
          /\ Becomes(showAllTodos([St EXCEPT !.todos = made.todos]))
          /\ dataTheme' = init(themeItem, dataTheme)
          /\ UNCHANGED themeItem

\* The user reloads the page: memory, DOM and timers go, localStorage stays.
Reload ==
  /\ phase \in {"run", "crashed"}
  /\ phase' = "boot"
  /\ Becomes(FreshPage(storage))
  /\ dataTheme' = PageTheme
  /\ UNCHANGED themeItem

\* One event handled to its end; the guard keeps the model within its bounds.
Handled(s) ==
  /\ Within(s)
  /\ phase' = phase
  /\ Becomes(s)
  /\ UNCHANGED <<themeItem, dataTheme>>

\* The user edits the task field.
TypeTask ==
  /\ phase = "run"
  /\ \E text \in Texts \cup {""} :
       /\ text # taskInput
       /\ Handled([St EXCEPT !.taskInput = text])

ClickAdd ==
  /\ phase = "run"
  /\ \E id \in Ids : Handled(addBtnClick(St, id))

\* keyup in taskInput with keyCode 13
PressEnter ==
  /\ phase = "run"
  /\ Len(taskInput) > 0
  /\ \E id \in Ids : Handled(handleAddTodo(St, id))

ClickDeleteAll ==
  /\ phase = "run"
  /\ Handled(handleClearAllTodos(St))

ClickFilter ==
  /\ phase = "run"
  /\ \E status \in FilterLabels : Handled(handleFilterTodos(St, status))

ClickEdit ==
  /\ phase = "run"
  /\ \E id \in RowIds : Handled(handleEditTodo(St, id))

ClickToggle ==
  /\ phase = "run"
  /\ \E id \in RowIds : Handled(handleToggleStatus(St, id))

ClickDelete ==
  /\ phase = "run"
  /\ \E id \in RowIds : Handled(handleDeleteTodo(St, id))

TimerFires ==
  /\ phase = "run"
  /\ timers > 0
  /\ Handled(hideAlert(St))

\* The page in use. The date field is left as the script leaves it (empty);
\* due dates are exercised through addTodo in SpecStore.
\* The user clicks a theme selector.
ClickTheme ==
  /\ phase = "run"
  /\ \E themeName \in Themes :
       /\ dataTheme' = setTheme(themeName)
       /\ themeItem' = saveThemeToLocalStorage(themeName)
  /\ UNCHANGED <<phase, todos, storage, taskInput, dateInput, todosListBody,
                 addBtn, updateListeners, alertMessage, timers>>

Next ==
  \/ RunScript
  \/ Reload
  \/ TypeTask
  \/ ClickAdd
  \/ PressEnter
  \/ ClickDeleteAll
  \/ ClickFilter
  \/ ClickEdit
  \/ ClickToggle
  \/ ClickDelete
  \/ TimerFires

Spec == Init /\ [][Next]_vars

(***************************************************************************)
(* The TodoManager alone, driven method by method.                         *)
(***************************************************************************)
\* new TodoManager(todoItemFormatter), without the UIManager
\* The page with its theme selectors.
NextTheme == Next \/ ClickTheme

SpecTheme == InitTheme /\ [][NextTheme]_vars

Construct ==
  /\ phase = "boot"
  /\ LET made == TodoManagerConstructor(storage) IN
     /\ phase' = IF made.threw THEN "crashed" ELSE "run"
     /\ Becomes([St EXCEPT !.todos = made.todos])
     /\ UNCHANGED <<themeItem, dataTheme>>

CallAddTodo ==
  /\ phase = "run"
  /\ \E id \in Ids, task \in Texts \cup {""}, dueDate \in Dates :
       Handled(addTodo(St, id, task, dueDate))

CallEditTodo ==
  /\ phase = "run"
  /\ \E id \in Ids, updatedTask \in Texts : Handled(editTodo(St, id, updatedTask))

CallDeleteTodo ==
  /\ phase = "run"
  /\ \E id \in Ids : Handled(deleteTodo(St, id))

CallToggleTodoStatus ==
  /\ phase = "run"
  /\ \E id \in Ids : Handled(toggleTodoStatus(St, id))

CallClearAllTodos ==
  /\ phase = "run"
  /\ Handled(clearAllTodos(St))

NextStore ==
  \/ Construct
  \/ Reload
  \/ CallAddTodo
  \/ CallEditTodo
  \/ CallDeleteTodo
  \/ CallToggleTodoStatus
  \/ CallClearAllTodos

SpecStore == Init /\ [][NextStore]_vars

TypeOK ==
  /\ phase \in {"boot", "run", "crashed"}
  /\ Len(todos) <= MaxTodos
  /\ timers \in 0 .. MaxTimers
  /\ updateListeners \in 0 .. MaxListeners

(***************************************************************************)
(* Helpers of the properties.                                              *)
(***************************************************************************)
IdsOf(list) == {list[k].id : k \in 1 .. Len(list)}

\* sub is list with some of its elements left out, the order kept
IsSubsequence(sub, list) ==
  \E f \in [1 .. Len(sub) -> 1 .. Len(list)] :
    /\ \A k \in 1 .. Len(sub) : sub[k] = list[f[k]]
    /\ \A k \in 1 .. Len(sub), l \in 1 .. Len(sub) : k < l => f[k] < f[l]

Count(list, Keep(_)) == Cardinality({k \in 1 .. Len(list) : Keep(list[k])})

\* ids handed to the store's methods, one of them never given to a record
IdArgs == Ids \cup {"none"}

(***************************************************************************)
(* C1: the records of the collection have pairwise distinct ids.           *)
(* getRandomId draws the id with no look at the collection, so the same id *)
(* can be drawn twice.                                                     *)
(***************************************************************************)
UniqueIds ==
  \A i \in 1 .. Len(todos), j \in 1 .. Len(todos) :
    i # j => todos[i].id # todos[j].id

(***************************************************************************)
(* C2: a TodoManager constructed from the "todos" item holds the same      *)
(* records, in the same order and with the same field values, as the       *)
(* collection in memory.                                                   *)
(***************************************************************************)
RestartReproduces ==
  phase = "run" =>
    /\ ~TodoManagerConstructor(storage).threw
    /\ TodoManagerConstructor(storage).todos = todos

RestartWitness ==
  /\ phase = "run"
  /\ storage.present
  /\ Len(todos) = 2
  /\ todos[1].completed
  /\ todos[1].task = LongTask
  /\ todos[2].dueDate = "No due date"
  /\ todos[2].task = formatTask(LongTask)

(***************************************************************************)
(* C3: filterTodos("all") is the collection; "pending" and "completed" are *)
(* the subsequences of the records with completed false and true, disjoint *)
(* and together all of it; any other criterion gives the empty sequence.   *)
(***************************************************************************)
OtherCriteria == {"done", "", "All", "active"}

FilterPartitions ==
  LET all == filterTodos(St, "all")
      pending == filterTodos(St, "pending")
      completed == filterTodos(St, "completed")
  IN /\ all = todos
     /\ IsSubsequence(pending, todos)
     /\ IsSubsequence(completed, todos)
     /\ \A k \in 1 .. Len(pending) : ~pending[k].completed
     /\ \A k \in 1 .. Len(completed) : completed[k].completed
     /\ Len(pending) + Len(completed) = Len(todos)
     /\ \A status \in OtherCriteria : filterTodos(St, status) = <<>>

\* the completed view of a collection that holds a pending record first
FilterWitness ==
  /\ phase = "run"
  /\ Len(todos) = 2
  /\ ~todos[1].completed
  /\ todos[2].completed
  /\ Len(todosListBody) = 1
  /\ todosListBody[1].kind = "todo"
  /\ todosListBody[1].status = "Completed"

(***************************************************************************)
(* C4: a click of the add button with an empty task input changes neither  *)
(* the collection nor the stored item, and the alert it leaves is the      *)
(* error alert "Please enter a task".                                      *)
(* With a handleUpdate listener attached the click ends in handleUpdate,   *)
(* whose success alert replaces the error alert.                           *)
(***************************************************************************)
EmptyAddShowsError ==
  [][(ClickAdd /\ taskInput = "") =>
       /\ todos' = todos
       /\ storage' = storage
       /\ alertMessage' = [text |-> "Please enter a task", type |-> "error",
                           shown |-> TRUE]]_vars

(***************************************************************************)
(* C5: the edit trigger on a record takes that one record out, and the     *)
(* next click of the add button puts one new record last, with the task    *)
(* formatTask(task input) and completed false, keeping the others, and     *)
(* shows "Todo updated successfully". (That the new id is fresh is C1.)    *)
(* With the task input empty at the click nothing is put back.             *)
(***************************************************************************)
EditIsDeleteThenReAdd ==
  [][/\ \A id \in RowIds :
          (/\ phase = "run"
           /\ Count(todos, LAMBDA t : t.id = id) = 1
           /\ Handled(handleEditTodo(St, id)))
          => /\ Len(todos') = Len(todos) - 1
             /\ IsSubsequence(todos', todos)
             /\ id \notin IdsOf(todos')
     /\ (ClickAdd /\ updateListeners > 0) =>
          /\ Len(todos') = Len(todos) + 1
          /\ SubSeq(todos', 1, Len(todos)) = todos
          /\ todos'[Len(todos')].task = formatTask(taskInput)
          /\ ~todos'[Len(todos')].completed
          /\ alertMessage'.text = "Todo updated successfully"]_vars

(***************************************************************************)
(* C6: constructing the store never fails: with the "todos" item missing   *)
(* or not parseable the constructor completes with an empty collection.    *)
(* JSON.parse throws on text that is not JSON and nothing catches it.      *)
(***************************************************************************)
ConstructorNeverFails ==
  /\ phase # "crashed"
  /\ (phase = "run" /\ (~storage.present \/ JSONparse(storage.text).threw))
       => todos = <<>>

(***************************************************************************)
(* C7: after every trigger that changes the collection the rows shown are  *)
(* the records of the collection in order (or the "No task found" row),    *)
(* and after an edit trigger the edited record is not among the rows.      *)
(* handleEditTodo deletes the record and does not render.                  *)
(***************************************************************************)
RowsOf(list) == displayTodos(St, list).todosListBody

DisplayFollowsStore ==
  [][(phase = "run" /\ phase' = "run") =>
       /\ todos' # todos => todosListBody' = RowsOf(todos')
       /\ \A id \in RowIds :
            (id \in IdsOf(todos) /\ Handled(handleEditTodo(St, id)))
            => \A k \in 1 .. Len(todosListBody') : todosListBody'[k].id # id]_vars

(***************************************************************************)
(* C8: every showAlertMessage call adds one hide callback and removes      *)
(* none: a trigger raises the number of pending callbacks by the number of *)
(* alerts it shows, and only a callback that fires lowers it, by one,      *)
(* hiding the container. So an earlier alert's callback can hide the       *)
(* container while the latest alert's callback is still pending.           *)
(***************************************************************************)
EveryAlertSchedulesItsOwnHide ==
  [][(phase = "run" /\ phase' = "run") =>
       /\ ClickAdd => timers' = timers + 1 + updateListeners
       /\ PressEnter => timers' = timers + 1
       /\ ClickDeleteAll => timers' = timers + 1
       /\ ClickDelete => timers' = timers + 1
       /\ alertMessage'.shown /\ alertMessage' # alertMessage => timers' > timers
       /\ timers' < timers =>
            /\ timers' = timers - 1
            /\ ~alertMessage'.shown
            /\ alertMessage'.text = alertMessage.text]_vars

\* The container is hidden though the callback of the alert it holds is pending.
PrematureHide ==
  /\ phase = "run"
  /\ ~alertMessage.shown
  /\ alertMessage.text # ""
  /\ timers > 0

(***************************************************************************)
(* C9: toggleTodoStatus(id) changes only the completed flag of the record  *)
(* it finds by that id (the first one), a second call restores collection  *)
(* and stored item, and with no record of that id nothing changes.         *)
(***************************************************************************)
ToggleTwiceRestores ==
  phase = "run" =>
    \A id \in IdArgs :
      LET once == toggleTodoStatus(St, id)
          twice == toggleTodoStatus(once, id)
          hits == {k \in 1 .. Len(todos) : todos[k].id = id}
      IN /\ Len(once.todos) = Len(todos)
         /\ \A k \in 1 .. Len(todos) :
              /\ once.todos[k].id = todos[k].id
              /\ once.todos[k].task = todos[k].task
              /\ once.todos[k].dueDate = todos[k].dueDate
              /\ once.todos[k].status = todos[k].status
              /\ (once.todos[k].completed # todos[k].completed)
                   <=> (k \in hits /\ \A l \in hits : k <= l)
         /\ once = [St EXCEPT !.todos = once.todos, !.storage = once.storage]
         /\ twice = St
         /\ hits = {} => once = St

ToggleWitness ==
  /\ phase = "run"
  /\ Len(todos) = 2
  /\ todos[1].id # todos[2].id
  /\ ~todos[1].completed
  /\ todos[2].completed

(***************************************************************************)
(* C10 as claimed: after deleteTodo(id) no record has that id and the      *)
(* others stay as they were, in order; a second deleteTodo(id), or a       *)
(* deleteTodo of an id no record has, leaves collection and stored item    *)
(* unchanged.                                                              *)
(***************************************************************************)
DeleteKeepsTheRest(before, after, id) ==
  /\ id \notin IdsOf(after)
  /\ IsSubsequence(after, before)
  /\ Len(after) = Count(before, LAMBDA t : t.id # id)

DeleteOfAbsentIdWritesNothing ==
  phase = "run" =>
    \A id \in IdArgs :
      LET once == deleteTodo(St, id)
          twice == deleteTodo(once, id)
      IN /\ DeleteKeepsTheRest(todos, once.todos, id)
         /\ twice = once
         /\ id \notin IdsOf(todos) => once = St

(***************************************************************************)
(* C10 amended: as above, but deleteTodo writes the item every time: with  *)
(* no record of that id the collection is unchanged, and the stored item   *)
(* is unchanged unless the key was still missing or held null, when it     *)
(* becomes the text of the empty collection.                               *)
(***************************************************************************)
NothingWrittenYet == ~storage.present \/ storage.text = <<"null">>

DeleteRemovesAndRepeats ==
  phase = "run" =>
    \A id \in IdArgs :
      LET once == deleteTodo(St, id)
          twice == deleteTodo(once, id)
      IN /\ DeleteKeepsTheRest(todos, once.todos, id)
         /\ once = [St EXCEPT !.todos = once.todos, !.storage = once.storage]
         /\ twice = once
         /\ id \notin IdsOf(todos) =>
              /\ once.todos = todos
              /\ ~NothingWrittenYet => once.storage = storage
              /\ NothingWrittenYet => once.storage = Item(<<"[", "]">>)

DeleteWitness ==
  /\ phase = "run"
  /\ Len(todos) = 2
  /\ todos[1].id = todos[2].id
  /\ todos[1].completed
  /\ storage.present

(***************************************************************************)
(* C11: with a non-empty task input, Enter in the task input has the       *)
(* effect a click of the add button would have from the same state:        *)
(* collection, stored item, inputs, rows, alert and add button alike.      *)
(* The keyup listener runs handleAddTodo only; a click also runs every     *)
(* handleUpdate attached by an edit trigger.                               *)
(***************************************************************************)
EnterIsAddClick ==
  (phase = "run" /\ Len(taskInput) > 0) =>
    \A id \in Ids : handleAddTodo(St, id) = addBtnClick(St, id)

(***************************************************************************)
(* C12: editTodo(id, text) with no record of that id returns undefined,    *)
(* changes nothing and writes nothing; with a record of that id it sets    *)
(* the task of that record (the first found) to the text as given, leaves  *)
(* every other field and record alone, and writes the item.                *)
(* The methods never read the item, so a call made with the item taken     *)
(* away leaves an item exactly when it wrote one.                          *)
(***************************************************************************)
Unwritten == [St EXCEPT !.storage = NoItem]

EditSetsRawTask ==
  phase = "run" =>
    \A id \in IdArgs, text \in Texts \cup {""} :
      LET after == editTodo(Unwritten, id, text)
          returned == editTodoReturn(Unwritten, id, text)
          hits == {k \in 1 .. Len(todos) : todos[k].id = id}
      IN /\ hits = {} => (returned = <<>> /\ after = Unwritten)
         /\ hits # {} =>
              /\ Len(after.todos) = Len(todos)
              /\ \A k \in 1 .. Len(todos) :
                   /\ after.todos[k].id = todos[k].id
                   /\ after.todos[k].dueDate = todos[k].dueDate
                   /\ after.todos[k].completed = todos[k].completed
                   /\ after.todos[k].status = todos[k].status
                   /\ after.todos[k].task =
                        IF k \in hits /\ \A l \in hits : k <= l THEN text
                        ELSE todos[k].task
              /\ Len(returned) = 1
              /\ returned[1].id = id
              /\ returned[1].task = text
              /\ after.storage.present
              /\ TodoManagerConstructor(after.storage).todos = after.todos
              /\ after = [St EXCEPT !.todos = after.todos, !.storage = after.storage]

\* a record whose task was set to a text longer than the formatter allows
EditWitness ==
  /\ phase = "run"
  /\ Len(todos) = 2
  /\ todos[2].task = LongTask
  /\ Len(todos[2].task) > MaxTaskLen + 3
  /\ todos[2].completed
  /\ TodoManagerConstructor(storage).todos = todos

(***************************************************************************)
(* C13: addTodo(t, d) puts the new record after all the others and changes *)
(* none of them; its task is t, cut to 14 characters plus "..." when t is  *)
(* longer, its dueDate is d, or "No due date" for the empty d, and it is   *)
(* not completed. No other method changes the order of the records that    *)
(* stay.                                                                   *)
(***************************************************************************)
IdSeq(list) == [k \in 1 .. Len(list) |-> list[k].id]

\* the records left are in the order they had
OrderKept(before, after) == IsSubsequence(IdSeq(after), IdSeq(before))

InsertionOrderKept ==
  phase = "run" =>
    /\ \A id \in Ids, task \in Texts \cup {""}, dueDate \in Dates :
         LET after == addTodo(St, id, task, dueDate).todos
             new == after[Len(after)]
         IN /\ Len(after) = Len(todos) + 1
            /\ SubSeq(after, 1, Len(todos)) = todos
            /\ new.id = id
            /\ ~new.completed
            /\ Len(task) <= MaxTaskLen => new.task = task
            /\ Len(task) > MaxTaskLen =>
                 /\ Len(new.task) = MaxTaskLen + 3
                 /\ SubSeq(new.task, 1, MaxTaskLen) = SubSeq(task, 1, MaxTaskLen)
                 /\ SubSeq(new.task, MaxTaskLen + 1, MaxTaskLen + 3) = "..."
            /\ new.dueDate = (IF dueDate = "" THEN "No due date" ELSE dueDate)
    /\ addTodo(St, "i1", LongTask, "").todos[Len(todos) + 1].task = "Buy oat milk t..."
    /\ \A id \in IdArgs :
         /\ OrderKept(todos, deleteTodo(St, id).todos)
         /\ OrderKept(todos, toggleTodoStatus(St, id).todos)
         /\ Len(toggleTodoStatus(St, id).todos) = Len(todos)
         /\ \A text \in Texts :
              /\ OrderKept(todos, editTodo(St, id, text).todos)
              /\ Len(editTodo(St, id, text).todos) = Len(todos)
    /\ OrderKept(todos, clearAllTodos(St).todos)

InsertionWitness ==
  /\ phase = "run"
  /\ Len(todos) = 2
  /\ todos[1].id # todos[2].id
  /\ todos[1].dueDate = "2024-01-01"
  /\ todos[2].task = "Buy oat milk t..."
  /\ todos[2].dueDate = "No due date"

(***************************************************************************)
(* C14: after clearAllTodos, and after the delete-all trigger,             *)
(* filterTodos("all") is empty, the list shows the single "No task found"  *)
(* row, and a store constructed from the item is empty, also when the      *)
(* collection was empty already and nothing was written.                   *)
(***************************************************************************)
ClearAllEmpties ==
  phase = "run" =>
    LET cleared == clearAllTodos(St)
        shown == handleClearAllTodos(St)
    IN /\ filterTodos(cleared, "all") = <<>>
       /\ filterTodos(shown, "all") = <<>>
       /\ Len(shown.todosListBody) = 1
       /\ shown.todosListBody[1].kind = "empty"
       /\ shown.todosListBody[1].task = "No task found"
       /\ ~TodoManagerConstructor(cleared.storage).threw
       /\ TodoManagerConstructor(cleared.storage).todos = <<>>
       /\ shown.storage = cleared.storage
       /\ todos = <<>> => cleared.storage = storage

\* the trigger handled on a collection already empty, the item never written
ClearAllWitness ==
  /\ phase = "run"
  /\ ~storage.present
  /\ todos = <<>>
  /\ alertMessage.text = "All todos cleared successfully"
  /\ todosListBody = <<NoTaskRow>>

(***************************************************************************)
(* C15: the item is written by addTodo always, by deleteTodo always (also  *)
(* with no record of the id), by editTodo and toggleTodoStatus only when a *)
(* record has the id, by clearAllTodos only when the collection was not    *)
(* empty, by filterTodos never; what is written is the whole collection    *)
(* as the call leaves it, so no call changes the collection without        *)
(* writing it. (Calls are made with the item taken away, see C12.)         *)
(***************************************************************************)
Wrote(after) == after.storage.present

WroteWhole(after) ==
  /\ Wrote(after)
  /\ TodoManagerConstructor(after.storage).todos = after.todos

WritesOnlyIf(after, cond) ==
  /\ Wrote(after) <=> cond
  /\ Wrote(after) => WroteWhole(after)
  /\ after.todos # todos => Wrote(after)

WritesExactlyWhen ==
  phase = "run" =>
    /\ \A id \in Ids, task \in Texts \cup {""}, dueDate \in Dates :
         WritesOnlyIf(addTodo(Unwritten, id, task, dueDate), TRUE)
    /\ \A id \in IdArgs :
         /\ WritesOnlyIf(deleteTodo(Unwritten, id), TRUE)
         /\ WritesOnlyIf(toggleTodoStatus(Unwritten, id), id \in IdsOf(todos))
         /\ \A text \in Texts :
              WritesOnlyIf(editTodo(Unwritten, id, text), id \in IdsOf(todos))
    /\ WritesOnlyIf(clearAllTodos(Unwritten), Len(todos) > 0)
    /\ \A status \in FilterLabels :
         /\ ~Wrote(handleFilterTodos(Unwritten, status))
         /\ handleFilterTodos(Unwritten, status).todos = todos

\* the empty collection, written
WritesWitness ==
  /\ phase = "run"
  /\ todos = <<>>
  /\ storage = Item(<<"[", "]">>)

(***************************************************************************)
(* C16: however many edit triggers came before it, one click of the add    *)
(* button leaves the button with the plus icon and no handleUpdate         *)
(* listener attached, so the click after it runs handleAddTodo alone and   *)
(* shows no "Todo updated successfully".                                   *)
(***************************************************************************)
UpdateListenerOneShot ==
  phase = "run" =>
    /\ addBtn = "check" <=> updateListeners > 0
    /\ \A id \in Ids :
         LET clicked == addBtnClick(St, id) IN
         /\ clicked.updateListeners = 0
         /\ clicked.addBtn = "plus"
         /\ \A next \in Ids :
              /\ addBtnClick(clicked, next) = handleAddTodo(clicked, next)
              /\ addBtnClick(clicked, next).alertMessage.text
                   # "Todo updated successfully"

\* two edits started, and the click that ends them can be taken
TwoEditsPending ==
  /\ phase = "run"
  /\ updateListeners = 2
  /\ addBtn = "check"
  /\ ENABLED ClickAdd

(***************************************************************************)
(* C17: every alert is hidden in the end. The event loop runs a timeout    *)
(* callback that is due, so a pending callback fires unless the page goes  *)
(* first (weak fairness of TimerFires). A shown alert always has a         *)
(* callback pending; callbacks leave one at a time, each hiding the        *)
(* container; and once no further alert is shown the container becomes     *)
(* hidden and stays hidden.                                                *)
(***************************************************************************)
SpecFair == Spec /\ WF_vars(TimerFires)

AlertsGetHidden ==
  /\ [](alertMessage.shown => timers > 0)
  /\ [][(phase' = "run" /\ timers' < timers) =>
          (timers' = timers - 1 /\ ~alertMessage'.shown)]_vars
  /\ <>[][timers' <= timers]_vars => <>[](~alertMessage.shown)
  /\ <>[][timers' <= timers]_vars => <>[](timers = 0)

\* an alert that was shown, hidden by the last pending callback
AlertHiddenWitness ==
  /\ phase = "run"
  /\ alertMessage.text = "Task added successfully"
  /\ ~alertMessage.shown
  /\ timers = 0

(***************************************************************************)
(* C18: every record has status "pending" whatever was done to it, so a    *)
(* record can be completed and still have status "pending".                *)
(***************************************************************************)
StatusStaysPending ==
  \A k \in 1 .. Len(todos) : todos[k].status = "pending"

CompletedYetPending ==
  /\ phase = "run"
  /\ Len(todos) = 2
  /\ todos[1].completed
  /\ todos[1].status = "pending"
  /\ todos[2].task = LongTask

(***************************************************************************)
(* C19: once the script has ended, a stored theme is the applied one: the  *)
(* one last selected, or the one found at startup. Todo triggers leave the *)
(* theme alone and theme selections leave the todos alone.                 *)
(***************************************************************************)
StoredThemeIsApplied ==
  (phase # "boot" /\ themeItem.present) => dataTheme = themeItem.text

\* The same on the pages whose script ran to its end.
StoredThemeIsAppliedWhenRunning ==
  (phase = "run" /\ themeItem.present) => dataTheme = themeItem.text

ThemeApartFromTodos ==
  [][/\ (phase' = phase /\ <<themeItem, dataTheme>>' # <<themeItem, dataTheme>>)
          => (UNCHANGED <<todos, storage, todosListBody>>
              /\ themeItem' = ThemeItem(dataTheme') /\ dataTheme' \in Themes)
     /\ themeItem' # themeItem => phase = "run"]_vars

====
